---- MODULE Spec2Model ----
(***************************************************************************)
(* State machine of the yewtube terminal front-end (src/tui_app.py): the   *)
(* process-wide AppState, the prompt_toolkit layout focus and search       *)
(* buffer, the key handlers, the search accept handler, the video-list     *)
(* reload helper and the playback threads.                                 *)
(*                                                                         *)
(* Python strings that the code parses (ids, links, durations, the search  *)
(* text) are sequences of one-character strings; list indices are 0-based  *)
(* as in the code, so the selected channel is channels[selected_channel+1].*)
(***************************************************************************)
EXTENDS Integers, Sequences, FiniteSets, Bags, TLC

VARIABLES
    query,             \* AppState.query
    channels,          \* AppState.channels: sequence of ChannelItem
    selected_channel,  \* AppState.selected_channel
    videos,            \* AppState.videos: sequence of VideoItem
    selected_video,    \* AppState.selected_video
    now_playing,       \* AppState.now_playing: <<>> (None) or <<title, seconds>>
    status_text,       \* AppState.status_text
    focused_pane,      \* AppState.focused_pane: "left" / "right"
    focus,             \* the layout's focused window
    show_video,        \* config.SHOW_VIDEO
    uiPc,              \* position of the UI thread
    searchRet,         \* what pafy.channel_search returned to the accept handler
    tasks,             \* bag of running playback threads
    listed,            \* most recent call of pafy.all_videos_from_channel
    reloads            \* runs of _load_videos_for_selected in the latest handler that reloaded

appState ==
    <<query, channels, selected_channel, videos, selected_video,
      now_playing, status_text, focused_pane>>

vars ==
    <<query, channels, selected_channel, videos, selected_video,
      now_playing, status_text, focused_pane, focus, show_video,
      uiPc, searchRet, tasks, listed, reloads>>

----------------------------------------------------------------------------
(* Bounds and input pools *)

\* playback threads alive at once
MaxTasks == 2

None == <<>>

\* what the user can have typed in the search box
Texts ==
    { <<>>, <<" ">>, <<"a">>, <<" ", "a", " ">> }

SearchErrors == {"search-err"}
ListErrors == {"list-err"}
PlayErrors == {"play-err"}

\* result records of pafy.channel_search
RA == [type |-> "channel", id |-> "A", title |-> "TA", descriptionSnippet |-> <<>>]
RB == [type |-> "channel", id |-> "B", title |-> "TB",
       descriptionSnippet |-> <<[text |-> "about B"]>>]
RX == [type |-> "video", id |-> "X", title |-> "TX", descriptionSnippet |-> <<>>]

SearchResults ==
    { <<RX>>, <<RA, RX, RB>> }

\* records of pafy.all_videos_from_channel
V1 == [id |-> <<"p">>, link |-> <<>>, title |-> "T1",
       duration |-> <<"2", ":", "0", "3">>]
V2 == [id |-> <<>>, link |-> <<"w", "=", "q">>, title |-> "T2", duration |-> <<>>]
V3 == [id |-> <<"r">>, link |-> <<>>, title |-> "",
       duration |-> <<"1", ":", "0", "0", ":", "0", "0">>]

VideoListings ==
    { <<V3>>, <<V2, V3, V1>> }

\* duration strings that a listing record can carry: the characters they are
\* made of and their greatest length
MaxDurLen == 5
DurationChars == {"1", ":", "x"}

DurationInputs ==
    UNION {[1..n -> DurationChars] : n \in 0..MaxDurLen}

\* a listing of one record with the given duration string
DurationListing(d) ==
    <<[id |-> <<"p">>, link |-> <<>>, title |-> "T1", duration |-> d]>>

----------------------------------------------------------------------------
(* Pure helpers *)

Max(a, b) == IF a >= b THEN a ELSE b
Min(a, b) == IF a <= b THEN a ELSE b

RECURSIVE LStrip(_)
LStrip(s) ==
    IF s # <<>> /\ Head(s) = " " THEN LStrip(Tail(s)) ELSE s

RECURSIVE RStrip(_)
RStrip(s) ==
    IF s # <<>> /\ s[Len(s)] = " " THEN RStrip(SubSeq(s, 1, Len(s) - 1)) ELSE s

\* str.strip()
Strip(s) == RStrip(LStrip(s))

\* str.split(sep)
RECURSIVE Split(_, _)
Split(s, sep) ==
    IF \E i \in 1..Len(s) : s[i] = sep
    THEN LET i == CHOOSE k \in 1..Len(s) :
                      s[k] = sep /\ \A j \in 1..(k - 1) : s[j] # sep
         IN  <<SubSeq(s, 1, i - 1)>> \o Split(SubSeq(s, i + 1, Len(s)), sep)
    ELSE <<s>>

Digits == <<"0", "1", "2", "3", "4", "5", "6", "7", "8", "9">>

\* str.isdigit()
IsDigit(tok) ==
    tok # <<>> /\ \A i \in 1..Len(tok) : \E d \in 1..10 : Digits[d] = tok[i]

DigitVal(c) == (CHOOSE d \in 1..10 : Digits[d] = c) - 1

\* int(tok) of an all-digit token
RECURSIVE ToInt(_)
ToInt(tok) ==
    IF tok = <<>> THEN 0
    ELSE ToInt(SubSeq(tok, 1, Len(tok) - 1)) * 10 + DigitVal(tok[Len(tok)])

RECURSIVE DigitParts(_)
DigitParts(toks) ==
    IF toks = <<>> THEN <<>>
    ELSE (IF IsDigit(Head(toks)) THEN <<ToInt(Head(toks))>> ELSE <<>>)
         \o DigitParts(Tail(toks))

\* _fmt_duration_to_seconds giving 0 as soon as one component is not numeric
FmtDurationRejecting(dur) ==
    IF dur = <<>> THEN 0
    ELSE LET toks == Split(dur, ":")
             parts == DigitParts(toks)
         IN  IF Len(parts) # Len(toks) THEN 0
             ELSE IF Len(parts) = 3 THEN parts[1] * 3600 + parts[2] * 60 + parts[3]
             ELSE IF Len(parts) = 2 THEN parts[1] * 60 + parts[2]
             ELSE 0

\* _fmt_duration_to_seconds
FmtDurationToSeconds(dur) ==
    IF dur = <<>> THEN 0
    ELSE LET parts == DigitParts(Split(dur, ":"))
         IN  IF Len(parts) = 3 THEN parts[1] * 3600 + parts[2] * 60 + parts[3]
             ELSE IF Len(parts) = 2 THEN parts[1] * 60 + parts[2]
             ELSE 0

\* the status line messages
Msg(kind, detail, n) == [kind |-> kind, detail |-> detail, n |-> n]
StatusEmpty == Msg("", "", 0)
StatusSearching == Msg("Searching...", "", 0)
StatusFound(n) == Msg("Found channel(s).", "", n)
StatusSearchFailed(e) == Msg("Search failed: ", e, 0)
StatusLoadFailed(e) == Msg("Failed to load videos: ", e, 0)
StatusPlaybackError(e) == Msg("Playback error: ", e, 0)
StatusFromSink == Msg("writestatus", "", 0)

\* render_channels: style and text of each entry line (none when the hint line
\* of the empty list is shown)
RenderChannels ==
    [i \in 1..Len(channels) |->
        LET marked == (i - 1) = selected_channel /\ focused_pane = "left"
        IN  [style |-> IF marked THEN "class:selected" ELSE "",
             prefix |-> IF marked THEN "> " ELSE "  ",
             title |-> channels[i].title]]

\* render_videos marking the selected entry whatever focused_pane is
RenderVideosAnyPane ==
    [i \in 1..Len(videos) |->
        LET marked == (i - 1) = selected_video
        IN  [style |-> IF marked THEN "class:selected" ELSE "",
             prefix |-> IF marked THEN "> " ELSE "  ",
             title |-> videos[i].title]]

\* render_videos: style and text of each entry line, without the formatted
\* duration that follows the title
RenderVideos ==
    [i \in 1..Len(videos) |->
        LET marked == (i - 1) = selected_video /\ focused_pane = "right"
        IN  [style |-> IF marked THEN "class:selected" ELSE "",
             prefix |-> IF marked THEN "> " ELSE "  ",
             title |-> videos[i].title]]

\* _compute_footer: the text of the status bar
FooterPlaying(title) == Msg("Playing: ", title, 0)
FooterHelp == Msg("Tab: switch pane | ...", "", 0)
ComputeFooter ==
    IF now_playing # None THEN FooterPlaying(now_playing[1])
    ELSE IF status_text # StatusEmpty THEN status_text
    ELSE FooterHelp

\* the description expression of ChannelItem(...)
Description(r) ==
    IF r.descriptionSnippet # <<>> THEN r.descriptionSnippet[1].text ELSE ""

\* the loop building channels from the search results
RECURSIVE MapChannels(_)
MapChannels(results) ==
    IF results = <<>> THEN <<>>
    ELSE LET r == Head(results)
         IN  (IF r.type # "channel" THEN <<>>
              ELSE <<[id |-> r.id, title |-> r.title, description |-> Description(r)]>>)
             \o MapChannels(Tail(results))

\* v.get('id') or (v.get('link').split('=')[-1] if v.get('link') else None)
VideoId(v) ==
    IF v.id # <<>> THEN v.id
    ELSE IF v.link # <<>>
         THEN LET segs == Split(v.link, "=") IN segs[Len(segs)]
         ELSE None

\* the loop building items from the listing
RECURSIVE MapVideos(_)
MapVideos(vids) ==
    IF vids = <<>> THEN <<>>
    ELSE LET v == Head(vids)
             vid == VideoId(v)
             dsec == FmtDurationToSeconds(v.duration)
         IN  (IF vid # None /\ v.title # ""
              THEN <<[id |-> vid, title |-> v.title, length_seconds |-> dsec]>>
              ELSE <<>>)
             \o MapVideos(Tail(vids))

\* outcomes of a collaborator call: a value or a raised exception
Returned(v) == [ok |-> TRUE, val |-> v, err |-> ""]
Raised(e) == [ok |-> FALSE, val |-> <<>>, err |-> e]
NoCall == [ok |-> FALSE, val |-> <<>>, err |-> ""]

SearchOutcomes ==
    {Returned(r) : r \in SearchResults} \cup {Raised(e) : e \in SearchErrors}

ListOutcomes ==
    {Returned(l) : l \in VideoListings} \cup {Raised(e) : e \in ListErrors}

----------------------------------------------------------------------------
(* _load_videos_for_selected: the new videos, selected_video and status_text
   given the channel list, the selection and the collaborator's outcome *)

LoadVideosKeepingIndex(chs, sel, sv, st, out) ==
    IF chs = <<>>
    THEN [videos |-> <<>>, selected_video |-> sv, status_text |-> st,
          calls |-> <<[ch |-> "", out |-> NoCall]>>]
    ELSE [videos |-> IF out.ok THEN MapVideos(out.val) ELSE <<>>,
          selected_video |-> sv,
          status_text |-> IF out.ok THEN st ELSE StatusLoadFailed(out.err),
          calls |-> <<[ch |-> chs[sel + 1].id, out |-> out]>>]

\* _load_videos_for_selected with an except block that writes no message
LoadVideosFailureSilent(chs, sel, sv, st, out) ==
    IF chs = <<>>
    THEN [videos |-> <<>>, selected_video |-> sv, status_text |-> st,
          calls |-> <<[ch |-> "", out |-> NoCall]>>]
    ELSE [videos |-> IF out.ok THEN MapVideos(out.val) ELSE <<>>,
          selected_video |-> IF out.ok THEN 0 ELSE sv,
          status_text |-> st,
          calls |-> <<[ch |-> chs[sel + 1].id, out |-> out]>>]

LoadVideosForSelected(chs, sel, sv, st, out) ==
    IF chs = <<>>
    THEN [videos |-> <<>>, selected_video |-> sv, status_text |-> st,
          calls |-> <<[ch |-> "", out |-> NoCall]>>]
    ELSE LET ch == chs[sel + 1]
         IN  IF out.ok
             THEN [videos |-> MapVideos(out.val), selected_video |-> 0,
                   status_text |-> st,
                   calls |-> <<[ch |-> ch.id, out |-> out]>>]
             ELSE [videos |-> <<>>, selected_video |-> sv,
                   status_text |-> StatusLoadFailed(out.err),
                   calls |-> <<[ch |-> ch.id, out |-> out]>>]

\* the latest call of pafy.all_videos_from_channel after the runs in calls
Listed(calls) ==
    LET last == calls[Len(calls)]
    IN  IF last.ch = "" THEN listed ELSE last

\* the try block reloading for the last channel found instead of the first
SearchAcceptTryLast(results, sv, st, out) ==
    LET chs == MapChannels(results)
        r == LoadVideosForSelected(chs, Max(0, Len(chs) - 1), sv, st, out)
    IN  [channels |-> chs, selected_channel |-> 0, videos |-> r.videos,
         selected_video |-> r.selected_video,
         status_text |-> StatusFound(Len(chs)), calls |-> r.calls]

\* the try block of _handle_search_accept once the search has returned
SearchAcceptTry(results, sv, st, out) ==
    LET chs == MapChannels(results)
        r == LoadVideosForSelected(chs, 0, sv, st, out)
    IN  [channels |-> chs, selected_channel |-> 0, videos |-> r.videos,
         selected_video |-> r.selected_video,
         status_text |-> StatusFound(Len(chs)), calls |-> r.calls]

\* the except block dropping the exception text
SearchAcceptExceptBare(e) == StatusSearchFailed("")

\* the except block of _handle_search_accept
SearchAcceptExcept(e) == StatusSearchFailed(e)

\* the new selection of the up and down handlers
ClampUp(i) == Max(0, i - 1)
ClampDown(i, n) == Min(n - 1, i + 1)

----------------------------------------------------------------------------
Init ==
    /\ query = <<>>
    /\ channels = <<>>
    /\ selected_channel = 0
    /\ videos = <<>>
    /\ selected_video = 0
    /\ now_playing = None
    /\ status_text = StatusEmpty
    /\ focused_pane = "left"
    /\ focus = "search_input"
    /\ show_video = FALSE
    /\ uiPc = "loop"
    /\ searchRet = NoCall
    /\ tasks = EmptyBag
    /\ listed = [ch |-> "", out |-> NoCall]
    /\ reloads = <<>>

\* the event loop is ready to run a key handler
CanDispatch == uiPc = "loop"

\* the accept handler testing the text without strip()
HandleSearchAcceptUntrimmed(text) ==
    /\ CanDispatch
    /\ focus = "search_input"
    /\ IF text = <<>>
       THEN UNCHANGED <<status_text, uiPc>>
       ELSE status_text' = StatusSearching /\ uiPc' = "search_call"
    /\ UNCHANGED <<query, channels, selected_channel, videos, selected_video,
                   now_playing, focused_pane, focus, show_video, searchRet,
                   tasks, listed, reloads>>

\* _handle_search_accept up to the call of pafy.channel_search
HandleSearchAccept(text) ==
    /\ CanDispatch
    /\ focus = "search_input"
    /\ IF Strip(text) = <<>>
       THEN UNCHANGED <<status_text, uiPc>>
       ELSE status_text' = StatusSearching /\ uiPc' = "search_call"
    /\ UNCHANGED <<query, channels, selected_channel, videos, selected_video,
                   now_playing, focused_pane, focus, show_video, searchRet,
                   tasks, listed, reloads>>

\* pafy.channel_search returns or raises
SearchCallReturns ==
    /\ uiPc = "search_call"
    /\ \E out \in SearchOutcomes : searchRet' = out
    /\ uiPc' = "search_ret"
    /\ UNCHANGED <<appState, focus, show_video, tasks, listed, reloads>>

\* _handle_search_accept after the call: the rest of try, and finally
SearchSucceeded ==
    /\ uiPc = "search_ret"
    /\ searchRet.ok
    /\ \E out \in ListOutcomes :
        LET r == SearchAcceptTry(searchRet.val, selected_video, status_text, out)
        IN  /\ channels' = r.channels
            /\ selected_channel' = r.selected_channel
            /\ videos' = r.videos
            /\ selected_video' = r.selected_video
            /\ status_text' = r.status_text
            /\ reloads' = r.calls
            /\ listed' = Listed(r.calls)
    /\ uiPc' = "loop"
    /\ searchRet' = NoCall
    /\ UNCHANGED <<query, now_playing, focused_pane, focus, show_video, tasks>>

\* _handle_search_accept without the except block: the exception leaves the
\* handler and app.run(), and the process ends
SearchFailedPropagates ==
    /\ uiPc = "search_ret"
    /\ ~searchRet.ok
    /\ uiPc' = "exited"
    /\ tasks' = EmptyBag
    /\ query' = <<>>
    /\ channels' = <<>>
    /\ selected_channel' = 0
    /\ videos' = <<>>
    /\ selected_video' = 0
    /\ now_playing' = None
    /\ status_text' = StatusEmpty
    /\ focused_pane' = "left"
    /\ focus' = "search_input"
    /\ show_video' = FALSE
    /\ searchRet' = NoCall
    /\ listed' = [ch |-> "", out |-> NoCall]
    /\ reloads' = <<>>

\* _handle_search_accept after the call: except, and finally
SearchFailed ==
    /\ uiPc = "search_ret"
    /\ ~searchRet.ok
    /\ status_text' = SearchAcceptExcept(searchRet.err)
    /\ uiPc' = "loop"
    /\ searchRet' = NoCall
    /\ UNCHANGED <<query, channels, selected_channel, videos, selected_video,
                   now_playing, focused_pane, focus, show_video, tasks, listed,
                   reloads>>

\* the tab handler going from the video list back to the channel list
KeyTabBackToChannels ==
    /\ CanDispatch
    /\ IF focus = "search_input"
       THEN focus' = "channels_window" /\ focused_pane' = "left"
       ELSE IF focus = "channels_window"
            THEN focus' = "videos_window" /\ focused_pane' = "right"
            ELSE focus' = "channels_window" /\ focused_pane' = "left"
    /\ UNCHANGED <<query, channels, selected_channel, videos, selected_video,
                   now_playing, status_text, show_video, uiPc, searchRet,
                   tasks, listed, reloads>>

\* the tab handler
KeyTab ==
    /\ CanDispatch
    /\ IF focus = "search_input"
       THEN focus' = "channels_window" /\ focused_pane' = "left"
       ELSE IF focus = "channels_window"
            THEN focus' = "videos_window" /\ focused_pane' = "right"
            ELSE focus' = "search_input" /\ UNCHANGED focused_pane
    /\ UNCHANGED <<query, channels, selected_channel, videos, selected_video,
                   now_playing, status_text, show_video, uiPc, searchRet,
                   tasks, listed, reloads>>

\* the up and down handlers moving the channel selection without reloading
NavigateNoReload(newChannel, newVideo) ==
    /\ CanDispatch
    /\ IF focus # "search_input" /\ focused_pane = "left" /\ channels # <<>>
       THEN selected_channel' = newChannel /\ UNCHANGED selected_video
       ELSE IF focus # "search_input" /\ focused_pane = "right" /\ videos # <<>>
            THEN selected_video' = newVideo /\ UNCHANGED selected_channel
            ELSE UNCHANGED <<selected_channel, selected_video>>
    /\ UNCHANGED <<query, channels, videos, now_playing, status_text,
                   focused_pane, focus, show_video, uiPc, searchRet, tasks,
                   listed, reloads>>

\* the body shared by the up and down handlers, given the new indices
Navigate(newChannel, newVideo) ==
    /\ CanDispatch
    /\ IF focus = "search_input"
       THEN UNCHANGED <<selected_channel, videos, selected_video, status_text,
                        listed, reloads>>
       ELSE IF focused_pane = "left" /\ channels # <<>>
            THEN /\ selected_channel' = newChannel
                 /\ \E out \in ListOutcomes :
                     LET r == LoadVideosForSelected(channels, newChannel,
                                                    selected_video, status_text, out)
                     IN  /\ videos' = r.videos
                         /\ selected_video' = r.selected_video
                         /\ status_text' = r.status_text
                         /\ reloads' = r.calls
                         /\ listed' = Listed(r.calls)
            ELSE IF focused_pane = "right" /\ videos # <<>>
                 THEN /\ selected_video' = newVideo
                      /\ UNCHANGED <<selected_channel, videos, status_text,
                                     listed, reloads>>
                 ELSE UNCHANGED <<selected_channel, videos, selected_video,
                                  status_text, listed, reloads>>
    /\ UNCHANGED <<query, channels, now_playing, focused_pane, focus, show_video, uiPc, searchRet, tasks>>

\* the up handler wrapping from the first video to the last
KeyUpWrapping ==
    Navigate(ClampUp(selected_channel),
             IF selected_video = 0 THEN Len(videos) - 1 ELSE selected_video - 1)

\* the up handler
KeyUp ==
    Navigate(ClampUp(selected_channel), ClampUp(selected_video))

\* the down handler with the video index left unclamped
KeyDownUnclamped ==
    Navigate(ClampDown(selected_channel, Len(channels)), selected_video + 1)

\* the down handler
KeyDown ==
    Navigate(ClampDown(selected_channel, Len(channels)),
             ClampDown(selected_video, Len(videos)))

\* _play_selected(mode)
PlaySelected(mode) ==
    IF videos = <<>>
    THEN UNCHANGED <<show_video, tasks>>
    ELSE /\ BagCardinality(tasks) < MaxTasks
         /\ show_video' \in {mode = "video", show_video}
         /\ tasks' = tasks (+) SetToBag({[pc |-> "start",
                                          vid |-> videos[selected_video + 1],
                                          mode |-> mode, err |-> ""]})

\* the enter handler of the key bindings (filtered out in the search box)
KeyEnter ==
    /\ CanDispatch
    /\ focus # "search_input"
    /\ IF focused_pane = "right" /\ videos # <<>>
       THEN PlaySelected("audio")
       ELSE UNCHANGED <<show_video, tasks>>
    /\ UNCHANGED <<appState, focus, uiPc, searchRet, listed, reloads>>

\* the 'v' handler without the has_focus(search_input) test
KeyVAnyFocus ==
    /\ CanDispatch
    /\ IF focused_pane = "right" /\ videos # <<>>
       THEN PlaySelected("video")
       ELSE UNCHANGED <<show_video, tasks>>
    /\ UNCHANGED <<appState, focus, uiPc, searchRet, listed, reloads>>

\* the 'v' handler
KeyV ==
    /\ CanDispatch
    /\ IF focus # "search_input" /\ focused_pane = "right" /\ videos # <<>>
       THEN PlaySelected("video")
       ELSE UNCHANGED <<show_video, tasks>>
    /\ UNCHANGED <<appState, focus, uiPc, searchRet, listed, reloads>>

\* the escape / c-c handler: app.exit(), then app.run() and run() return and
\* the process ends; the daemon threads end with it and the module state is
\* gone, which the model shows as the values of a fresh process
KeyEscape ==
    /\ CanDispatch
    /\ uiPc' = "exited"
    /\ tasks' = EmptyBag
    /\ query' = <<>>
    /\ channels' = <<>>
    /\ selected_channel' = 0
    /\ videos' = <<>>
    /\ selected_video' = 0
    /\ now_playing' = None
    /\ status_text' = StatusEmpty
    /\ focused_pane' = "left"
    /\ focus' = "search_input"
    /\ show_video' = FALSE
    /\ searchRet' = NoCall
    /\ listed' = [ch |-> "", out |-> NoCall]
    /\ reloads' = <<>>

----------------------------------------------------------------------------
(* The playback thread _run *)

Running == uiPc # "exited"

Step(r, r2) == (tasks (-) SetToBag({r})) (+) SetToBag({r2})
Exit(r) == tasks (-) SetToBag({r})

\* the thread starting without the assignment to now_playing
RunSkipsNowPlaying(r) ==
    /\ Running
    /\ r.pc = "start"
    /\ tasks' = Step(r, [r EXCEPT !.pc = "clear"])
    /\ UNCHANGED <<query, channels, selected_channel, videos, selected_video,
                   now_playing, status_text, focused_pane, focus, show_video,
                   uiPc, searchRet, listed, reloads>>

\* state.now_playing = (vid.title, vid.length_seconds)
RunSetNowPlaying(r) ==
    /\ Running
    /\ r.pc = "start"
    /\ now_playing' = <<r.vid.title, r.vid.length_seconds>>
    /\ tasks' = Step(r, [r EXCEPT !.pc = "clear"])
    /\ UNCHANGED <<query, channels, selected_channel, videos, selected_video,
                   status_text, focused_pane, focus, show_video, uiPc,
                   searchRet, listed, reloads>>

\* state.status_text = ''
RunClearStatus(r) ==
    /\ Running
    /\ r.pc = "clear"
    /\ status_text' = StatusEmpty
    /\ tasks' = Step(r, [r EXCEPT !.pc = "playing"])
    /\ UNCHANGED <<query, channels, selected_channel, videos, selected_video,
                   now_playing, focused_pane, focus, show_video, uiPc,
                   searchRet, listed, reloads>>

\* the thread ending without the finally block's assignment
RunFinallyKeepsNowPlaying(r) ==
    /\ tasks' = Exit(r)
    /\ UNCHANGED <<query, channels, selected_channel, videos, selected_video,
                   now_playing, focused_pane, focus, show_video, uiPc,
                   searchRet, listed, reloads>>

\* the finally block: state.now_playing = None, and the thread ends
RunFinally(r) ==
    /\ now_playing' = None
    /\ tasks' = Exit(r)
    /\ UNCHANGED <<query, channels, selected_channel, videos, selected_video,
                   focused_pane, focus, show_video, uiPc, searchRet, listed,
                   reloads>>

\* play() returns: finally
RunPlayReturned(r) ==
    /\ Running
    /\ r.pc = "playing"
    /\ RunFinally(r)
    /\ UNCHANGED status_text

\* KeyboardInterrupt handled by the except block that reports
RunPlayInterruptedReported(r) ==
    /\ Running
    /\ r.pc = "playing"
    /\ status_text' = StatusPlaybackError("KeyboardInterrupt")
    /\ RunFinally(r)

\* play() raises KeyboardInterrupt: pass, then finally
RunPlayInterrupted(r) ==
    /\ Running
    /\ r.pc = "playing"
    /\ RunFinally(r)
    /\ UNCHANGED status_text

\* the except block without the assignment to status_text
RunPlayFailedSilent(r, e) ==
    /\ Running
    /\ r.pc = "playing"
    /\ tasks' = Step(r, [r EXCEPT !.pc = "finally", !.err = e])
    /\ UNCHANGED <<query, channels, selected_channel, videos, selected_video,
                   now_playing, status_text, focused_pane, focus, show_video,
                   uiPc, searchRet, listed, reloads>>

\* play() raises another exception: the except block
RunPlayFailed(r, e) ==
    /\ Running
    /\ r.pc = "playing"
    /\ status_text' = StatusPlaybackError(e)
    /\ tasks' = Step(r, [r EXCEPT !.pc = "finally", !.err = e])
    /\ UNCHANGED <<query, channels, selected_channel, videos, selected_video,
                   now_playing, focused_pane, focus, show_video, uiPc,
                   searchRet, listed, reloads>>

\* finally, after the except block
RunAfterFailure(r) ==
    /\ Running
    /\ r.pc = "finally"
    /\ RunFinally(r)
    /\ UNCHANGED status_text

\* _patched_writestatus, called by the player while it plays
WriteStatus ==
    /\ Running
    /\ \E r \in BagToSet(tasks) : r.pc = "playing"
    /\ status_text' = StatusFromSink
    /\ UNCHANGED <<query, channels, selected_channel, videos, selected_video,
                   now_playing, focused_pane, focus, show_video, uiPc,
                   searchRet, tasks, listed, reloads>>

----------------------------------------------------------------------------
Next ==
    \/ \E text \in Texts : HandleSearchAccept(text)
    \/ SearchCallReturns
    \/ SearchSucceeded
    \/ SearchFailed
    \/ KeyTab
    \/ KeyUp
    \/ KeyDown
    \/ KeyEnter
    \/ KeyV
    \/ KeyEscape
    \/ \E r \in BagToSet(tasks) : RunSetNowPlaying(r)
    \/ \E r \in BagToSet(tasks) : RunClearStatus(r)
    \/ \E r \in BagToSet(tasks) : RunPlayReturned(r)
    \/ \E r \in BagToSet(tasks) : RunPlayInterrupted(r)
    \/ \E r \in BagToSet(tasks) : \E e \in PlayErrors : RunPlayFailed(r, e)
    \/ \E r \in BagToSet(tasks) : RunAfterFailure(r)
    \/ WriteStatus

Spec == Init /\ [][Next]_vars

----------------------------------------------------------------------------
(* The duration parser at work: the channel list holds the two channels of a
   search whose first listing kept no record, the channel list is focused,
   and Down reloads with listings whose duration strings range over
   DurationInputs *)

InitDurations ==
    /\ query = <<>>
    /\ channels = MapChannels(<<RA, RX, RB>>)
    /\ selected_channel = 0
    /\ videos = <<>>
    /\ selected_video = 0
    /\ now_playing = None
    /\ status_text = StatusFound(2)
    /\ focused_pane = "left"
    /\ focus = "channels_window"
    /\ show_video = FALSE
    /\ uiPc = "loop"
    /\ searchRet = NoCall
    /\ tasks = EmptyBag
    /\ listed = [ch |-> "A", out |-> Returned(<<V3>>)]
    /\ reloads = <<[ch |-> "A", out |-> Returned(<<V3>>)]>>

\* the down handler on the channel list when pafy.all_videos_from_channel
\* returns DurationListing(d)
KeyDownOnListing(d) ==
    /\ CanDispatch
    /\ focus # "search_input" /\ focused_pane = "left" /\ channels # <<>>
    /\ LET newChannel == ClampDown(selected_channel, Len(channels))
           r == LoadVideosForSelected(channels, newChannel, selected_video,
                                      status_text, Returned(DurationListing(d)))
       IN  /\ selected_channel' = newChannel
           /\ videos' = r.videos
           /\ selected_video' = r.selected_video
           /\ status_text' = r.status_text
           /\ reloads' = r.calls
           /\ listed' = Listed(r.calls)
    /\ UNCHANGED <<query, channels, now_playing, focused_pane, focus,
                   show_video, uiPc, searchRet, tasks>>

NextDurations ==
    \E d \in DurationInputs : KeyDownOnListing(d)

SpecDurations == InitDurations /\ [][NextDurations]_vars

----------------------------------------------------------------------------
(* Properties *)

\* C1: in every reachable state, if channels is non-empty then
\* 0 <= selected_channel < len(channels), and if videos is non-empty then
\* 0 <= selected_video < len(videos).
C1_IndicesInRange ==
    /\ channels # <<>> => (0 <= selected_channel /\ selected_channel < Len(channels))
    /\ videos # <<>> => (0 <= selected_video /\ selected_video < Len(videos))

\* both lists hold two entries, both selections have moved off 0, and a
\* playback thread is running
C1_Witness ==
    /\ Len(channels) = 2 /\ selected_channel = 1
    /\ Len(videos) = 2 /\ selected_video = 1
    /\ tasks # EmptyBag

\* C2: whenever the UI thread is back in the event loop and channels is
\* non-empty, videos is empty or is the mapped listing that the latest call of
\* the channel-videos collaborator returned, and that call was made for the
\* selected channel.
C2_VideosOfSelectedChannel ==
    (uiPc = "loop" /\ channels # <<>>) =>
        \/ videos = <<>>
        \/ /\ listed.ch = channels[selected_channel + 1].id
           /\ listed.out.ok
           /\ videos = MapVideos(listed.out.val)

\* Down has moved the selection from A to B and the videos shown were listed
\* for B
C2_Witness ==
    /\ uiPc = "loop"
    /\ Len(channels) = 2 /\ selected_channel = 1
    /\ channels[2].id = "B" /\ listed.ch = "B"
    /\ videos # <<>>

\* a step in which _load_videos_for_selected runs: the accept handler after a
\* successful search, or Up/Down with the channel list focused
ReloadStep ==
    \/ SearchSucceeded
    \/ /\ KeyUp \/ KeyDown
       /\ focus # "search_input" /\ focused_pane = "left" /\ channels # <<>>

\* C3 as stated: every video-list reload leaves selected_video = 0 when it
\* returns.
C3_EveryReloadResetsIndex ==
    [][ReloadStep => selected_video' = 0]_vars

\* C3 as amended: a reload whose listing call succeeds leaves selected_video = 0
\* whatever it was before; a reload that fails, or that finds no channel,
\* leaves videos empty and selected_video as it was.
C3_SuccessfulReloadResetsIndex ==
    [][ReloadStep =>
        IF reloads'[1].out.ok
        THEN selected_video' = 0
        ELSE videos' = <<>> /\ selected_video' = selected_video]_vars

\* the second channel has just been listed successfully and the video
\* selection is back at 0
C3_Witness ==
    /\ uiPc = "loop"
    /\ selected_channel = 1
    /\ Len(reloads) = 1 /\ reloads[1].ch = "B" /\ reloads[1].out.ok
    /\ Len(videos) = 2 /\ selected_video = 0

\* C4: when the search returns successfully, the accept handler leaves channels
\* equal to the channel-typed results in result order, selected_channel = 0,
\* exactly one run of the reload, made for the channel at index 0 (for no
\* channel when none was found), and the channel-count summary in status_text.
C4_SearchSuccess ==
    [][(uiPc = "search_ret" /\ searchRet.ok /\ uiPc' = "loop") =>
        /\ channels' = MapChannels(searchRet.val)
        /\ selected_channel' = 0
        /\ Len(reloads') = 1
        /\ reloads'[1].ch = (IF channels' = <<>> THEN "" ELSE channels'[1].id)
        /\ status_text' = StatusFound(Len(channels'))]_vars

\* a search has found two channels and the videos of the first were listed
C4_Witness ==
    /\ uiPc = "loop"
    /\ status_text = StatusFound(2)
    /\ Len(channels) = 2 /\ selected_channel = 0
    /\ Len(reloads) = 1 /\ reloads[1].ch = "A"
    /\ videos # <<>>

\* C5: from the submit to the return of a failed search nothing changes
\* channels, videos or the selections, and the handler returns with the
\* search-failure message carrying the error's text in status_text.
C5_SearchFailure ==
    [][(uiPc \in {"search_call", "search_ret"}
            /\ ~(uiPc = "search_ret" /\ searchRet.ok)) =>
        /\ UNCHANGED <<channels, selected_channel, videos, selected_video>>
        /\ uiPc' = "loop" => status_text' = StatusSearchFailed(searchRet.err)]_vars

\* a search has failed while channels and videos were loaded
C5_Witness ==
    /\ uiPc = "loop"
    /\ status_text \in {StatusSearchFailed(e) : e \in SearchErrors}
    /\ channels # <<>>
    /\ videos # <<>>

\* C6: accepting a search text that is empty after strip() changes nothing:
\* no call of the search collaborator, no thread, no field of AppState.
C6_BlankSubmitIsNoOp ==
    [][(\E text \in Texts : Strip(text) = <<>> /\ HandleSearchAccept(text))
        => UNCHANGED vars]_vars

\* the search box has focus while channels, videos, a status message and a
\* playback thread exist; whitespace-only text is among the inputs
C6_Witness ==
    /\ uiPc = "loop" /\ focus = "search_input"
    /\ channels # <<>> /\ videos # <<>>
    /\ status_text # StatusEmpty
    /\ tasks # EmptyBag
    /\ \E text \in Texts : text # <<>> /\ Strip(text) = <<>>

\* a search or a playback is waiting for its collaborator
SearchInFlight == uiPc = "search_call"
PlaybackInFlight == \E r \in BagToSet(tasks) : r.pc = "playing"

\* C7: while a search or a playback is in flight the dispatcher can run a key
\* handler (Tab here) without waiting for the task to finish.
C7_KeysHandledWhileInFlight ==
    (SearchInFlight \/ PlaybackInFlight) => ENABLED KeyTab

\* C8 as stated: when a thread whose play call raised ends, status_text is the
\* playback-failure message with that failure's text and now_playing is None.
C8_FailureShownAtCompletion ==
    [][\A r \in BagToSet(tasks) :
        RunAfterFailure(r) =>
            /\ status_text' = StatusPlaybackError(r.err)
            /\ now_playing' = None]_vars

\* C8 as amended: when the play call raises, the thread writes the
\* playback-failure message with that failure's text to status_text; when the
\* thread ends, now_playing is None and the thread leaves status_text as it
\* finds it, which is that message unless another writer has replaced it.
C8_FailureWrittenThenCleared ==
    [][\A r \in BagToSet(tasks) :
        /\ \A e \in PlayErrors :
            RunPlayFailed(r, e) =>
                /\ status_text' = StatusPlaybackError(e)
                /\ now_playing' = now_playing
        /\ RunAfterFailure(r) =>
            /\ now_playing' = None
            /\ status_text' = status_text
            /\ tasks' = Exit(r)]_vars

\* a thread has caught a failure and its message is shown while a second
\* thread is still playing
C8_Witness ==
    \E r \in BagToSet(tasks) :
        /\ r.pc = "finally"
        /\ status_text = StatusPlaybackError(r.err)
        /\ now_playing # None
        /\ \E q \in BagToSet(tasks) : q.pc = "playing"

\* C9: when the play call raises an interrupt, the thread writes no message:
\* it leaves status_text as it is, sets now_playing to None and ends.
C9_InterruptIsSilent ==
    [][\A r \in BagToSet(tasks) :
        RunPlayInterrupted(r) =>
            /\ status_text' = status_text
            /\ now_playing' = None
            /\ tasks' = Exit(r)]_vars

\* a thread is playing while status_text holds a message and now_playing is set
C9_Witness ==
    /\ \E r \in BagToSet(tasks) : r.pc = "playing"
    /\ status_text = StatusFromSink
    /\ now_playing # None

\* the condition under which Enter and 'v' play
PlayGuard ==
    focus # "search_input" /\ focused_pane = "right" /\ videos # <<>>

\* the step starts a playback thread
Spawned == BagCardinality(tasks') = BagCardinality(tasks) + 1

\* the step starts a thread for the selected video in the given mode
SpawnedFor(mode) ==
    tasks' = tasks (+) SetToBag({[pc |-> "start",
                                  vid |-> videos[selected_video + 1],
                                  mode |-> mode, err |-> ""]})

\* a thread is started only by Enter (audio) or 'v' (video) under PlayGuard,
\* and under PlayGuard each of the two keys starts one in its own mode
SpawnOnlyWhenGuarded ==
    /\ Spawned =>
        /\ PlayGuard
        /\ (KeyEnter /\ SpawnedFor("audio")) \/ (KeyV /\ SpawnedFor("video"))
    /\ (KeyEnter /\ PlayGuard) => SpawnedFor("audio")
    /\ (KeyV /\ PlayGuard) => SpawnedFor("video")

\* the Enter key: the key binding, or the accept handler in the search box
EnterPressed ==
    KeyEnter \/ \E text \in Texts : HandleSearchAccept(text)

\* C10 as stated: a thread is started by Enter or 'v' only under PlayGuard, and
\* in every other case Enter and 'v' change nothing.
C10_PlayOnlyOnVideoList ==
    [][/\ SpawnOnlyWhenGuarded
       /\ ((EnterPressed \/ KeyV) /\ ~PlayGuard) => UNCHANGED vars]_vars

\* C10 as amended: a thread is started by Enter or 'v' only under PlayGuard;
\* otherwise 'v' changes nothing, Enter outside the search box changes nothing,
\* and Enter in the search box is the search submit, which starts no thread.
C10_PlayOnlyOnVideoListOrSubmit ==
    [][/\ SpawnOnlyWhenGuarded
       /\ ((KeyEnter \/ KeyV) /\ ~PlayGuard) => UNCHANGED vars
       /\ (\E text \in Texts : HandleSearchAccept(text)) => tasks' = tasks]_vars

\* 'v' on the video list has started a thread in video mode
C10_Witness ==
    /\ focus = "videos_window"
    /\ \E r \in BagToSet(tasks) : r.pc = "start" /\ r.mode = "video"

\* the window that Tab focuses after the given one
TabSuccessor(w) ==
    CASE w = "search_input" -> "channels_window"
      [] w = "channels_window" -> "videos_window"
      [] w = "videos_window" -> "search_input"

\* C11: the application starts with focus on the search input; every Tab
\* moves the focus one step along search input -> channel list -> video list
\* -> search input, so that two further Tabs bring it back to where the first
\* one found it; and nothing but Tab moves the focus while the application
\* runs.
C11_TabMovesFocus ==
    /\ focus = "search_input"
    /\ [][/\ KeyTab =>
              /\ focus' = TabSuccessor(focus)
              /\ TabSuccessor(TabSuccessor(focus')) = focus
          /\ (focus' # focus /\ uiPc' # "exited") => KeyTab]_vars

\* focus is back on the search input after a full round: focused_pane still
\* holds the "right" that the second Tab wrote
C11_Witness ==
    /\ uiPc = "loop"
    /\ focus = "search_input"
    /\ focused_pane = "right"

\* C12: in every state of the running application an Escape key event is
\* handled at once and ends the application, whatever search or playback is
\* in flight.
C12_EscapeExitsAtOnce ==
    uiPc # "exited" => ENABLED KeyEscape

\* the duration string of the record that the latest listing held, and the
\* seconds that the reload stored for it
ParsedInput == listed.out.val[1].duration
ParsedSeconds == videos[1].length_seconds

\* the components of a duration string, and those of them that are numeric
Components(d) == Split(d, ":")
NumericComponents(d) == SelectSeq(Components(d), LAMBDA t : IsDigit(t))

\* two or three components, all numeric
WellFormed(d) ==
    /\ Len(Components(d)) \in {2, 3}
    /\ \A i \in 1..Len(Components(d)) : IsDigit(Components(d)[i])

\* M*60+SS of two components, H*3600+MM*60+SS of three
SecondsOf(toks) ==
    IF Len(toks) = 3
    THEN ToInt(toks[1]) * 3600 + ToInt(toks[2]) * 60 + ToInt(toks[3])
    ELSE ToInt(toks[1]) * 60 + ToInt(toks[2])

C13_WellFormedParsed ==
    /\ videos # <<>>
    /\ ParsedInput = <<"1", ":", "1", ":", "1">>
    /\ ParsedSeconds = 3661

\* a step in which _load_videos_for_selected runs and its listing call raises
ReloadFailedStep ==
    ReloadStep /\ reloads'[1].ch # "" /\ ~reloads'[1].out.ok

\* C14: the application ends only by the escape / c-c handler. A failed search
\* returns to the event loop with the search-failure message; a failed listing
\* is turned into the load-failure message by the reload and its handler
\* returns to the event loop; a failed play call writes the playback-failure
\* message in its thread and the UI thread is where it was.
C14_FailuresNeverTerminate ==
    [][/\ (uiPc # "exited" /\ uiPc' = "exited") => KeyEscape
       /\ SearchFailed =>
            /\ uiPc' = "loop"
            /\ status_text' = StatusSearchFailed(searchRet.err)
       /\ ReloadFailedStep =>
            /\ uiPc' = "loop"
            /\ LoadVideosForSelected(channels', selected_channel', selected_video,
                                     status_text, reloads'[1].out).status_text
                 = StatusLoadFailed(reloads'[1].out.err)
       /\ \A r \in BagToSet(tasks) : \A e \in PlayErrors :
            RunPlayFailed(r, e) =>
                /\ uiPc' = uiPc
                /\ status_text' = StatusPlaybackError(e)]_vars

\* the application is in its event loop after a failed search, with the
\* latest listing failed and a thread whose play call has raised
C14_Witness ==
    /\ uiPc = "loop"
    /\ status_text \in {StatusSearchFailed(e) : e \in SearchErrors}
    /\ reloads # <<>> /\ reloads[1].ch # "" /\ ~reloads[1].out.ok
    /\ \E r \in BagToSet(tasks) : r.pc = "finally" /\ r.err \in PlayErrors

\* C15 as stated: whenever a reload fails, the handler that ran it returns
\* with videos empty and the load-failure message in status_text.
C15_ReloadFailureShown ==
    [][ReloadFailedStep =>
        /\ videos' = <<>>
        /\ status_text' = StatusLoadFailed(reloads'[1].out.err)]_vars

\* C15 as amended: whenever a reload fails, the handler that ran it returns
\* with videos empty; status_text is the load-failure message when Up or Down
\* ran the reload, and the channel-count summary, written after the reload,
\* when the accept handler ran it.
C15_ReloadFailureShownByNavigation ==
    [][ReloadFailedStep =>
        /\ videos' = <<>>
        /\ (KeyUp \/ KeyDown) =>
                status_text' = StatusLoadFailed(reloads'[1].out.err)
        /\ SearchSucceeded => status_text' = StatusFound(Len(channels'))]_vars

\* Down has selected the second channel and its listing has failed
C15_Witness ==
    /\ uiPc = "loop"
    /\ selected_channel = 1
    /\ reloads # <<>> /\ reloads[1].ch = "B" /\ ~reloads[1].out.ok
    /\ videos = <<>>
    /\ status_text \in {StatusLoadFailed(e) : e \in ListErrors}

\* the thread has made its first assignment and has not ended
HasStarted(r) == r.pc # "start"

\* what the thread writes to now_playing
NowPlayingOf(r) == <<r.vid.title, r.vid.length_seconds>>

\* C16: in every reachable state, if now_playing is set then a playback thread
\* for that very video has started and has not ended; so now_playing is None
\* whenever no playback thread is running.
C16_NowPlayingHasTask ==
    now_playing # None =>
        \E r \in BagToSet(tasks) : HasStarted(r) /\ now_playing = NowPlayingOf(r)

\* two threads for different videos are playing at once and now_playing is set
C16_Witness ==
    /\ now_playing # None
    /\ \E r, q \in BagToSet(tasks) :
        /\ r.pc = "playing" /\ q.pc = "playing"
        /\ NowPlayingOf(r) # NowPlayingOf(q)

\* the status bar shows "Playing: ..."
ShowsPlaying == now_playing # None /\ ComputeFooter = FooterPlaying(now_playing[1])

\* C17 as stated: while a playback thread has started and has not ended,
\* now_playing is set and the status bar shows "Playing: ...".
C17_PlayingShownWhileInFlight ==
    (\E r \in BagToSet(tasks) : HasStarted(r)) => ShowsPlaying

\* C17 as amended: a playback thread that starts running sets now_playing, so
\* the status bar shows "Playing: ..." with its title; the status bar stops
\* showing it only when a started thread ends (or the application exits), be
\* it that thread or one that overlaps it.
C17_PlayingShownUntilACompletion ==
    [][/\ \A r \in BagToSet(tasks) :
            RunSetNowPlaying(r) =>
                /\ now_playing' = NowPlayingOf(r)
                /\ ComputeFooter' = FooterPlaying(r.vid.title)
       /\ (ShowsPlaying /\ ~ShowsPlaying') =>
            \/ \E r \in BagToSet(tasks) : HasStarted(r) /\ tasks' = Exit(r)
            \/ KeyEscape]_vars

\* of two overlapping threads one has ended: the other is still playing and
\* the status bar no longer shows "Playing: ..."
C17_Witness ==
    /\ \E r \in BagToSet(tasks) : r.pc = "playing"
    /\ ~ShowsPlaying

\* C18: at the step in which a playback thread calls the player's play
\* operation, config.SHOW_VIDEO is what the thread's mode asks for: TRUE for
\* video, FALSE for audio.
C18_PlaysInRequestedMode ==
    [][\A r \in BagToSet(tasks) :
        RunClearStatus(r) => show_video' = (r.mode = "video")]_vars

\* the entry line carries the selection marker
Marked(line) == line.prefix = "> " /\ line.style = "class:selected"

\* the entries of each pane that are rendered with the marker
MarkedChannels == {i \in 1..Len(channels) : Marked(RenderChannels[i])}
MarkedVideos == {i \in 1..Len(videos) : Marked(RenderVideos[i])}

AllButSelectedVideo ==
    <<query, channels, selected_channel, videos, now_playing, status_text,
      focused_pane, focus, show_video, uiPc, searchRet, tasks, listed, reloads>>

\* C20: Up and Down with the video list focused move selected_video by one
\* step, kept within 0 .. len(videos)-1 (not at all when videos is empty), and
\* change nothing else: channels, selected_channel, videos and status_text stay
\* and pafy.all_videos_from_channel is not called. Up and Down with the search
\* input focused change nothing.
C20_VideoNavigationFrame ==
    [][/\ (KeyUp /\ focus = "videos_window") =>
            /\ selected_video' = (IF videos = <<>> THEN selected_video
                                  ELSE Max(0, selected_video - 1))
            /\ UNCHANGED AllButSelectedVideo
       /\ (KeyDown /\ focus = "videos_window") =>
            /\ selected_video' = (IF videos = <<>> THEN selected_video
                                  ELSE Min(Len(videos) - 1, selected_video + 1))
            /\ UNCHANGED AllButSelectedVideo
       /\ ((KeyUp \/ KeyDown) /\ focus = "search_input") => UNCHANGED vars]_vars

\* Down on the video list has moved the video selection of the second channel
C20_Witness ==
    /\ uiPc = "loop"
    /\ focus = "videos_window"
    /\ selected_channel = 1
    /\ Len(videos) = 2 /\ selected_video = 1
    /\ status_text # StatusEmpty

====
